---- MODULE Spec2Model ----
(***************************************************************************)
(* SRP-6a client engine of apple_srp_client (src/src/lib.rs).              *)
(*                                                                         *)
(* The engine is a set of pure functions over byte strings and unsigned    *)
(* big integers plus one result object (SrpClientVerifier).  Byte strings  *)
(* are sequences over 0..255, BigUint values are naturals.  The hash D is  *)
(* a generic parameter of the source; here it is one fixed small digest    *)
(* with a two-byte output, computed from the bytes fed to it.              *)
(***************************************************************************)
EXTENDS Integers, Sequences, FiniteSets, TLC

VARIABLES
    params,       \* self.params: the SrpGroup [n, g] the engine borrows
    in_a,         \* process_reply argument a: &[u8]
    in_username,  \* process_reply argument username: &[u8]
    in_password,  \* process_reply argument password: &[u8]
    in_salt,      \* process_reply argument salt: &[u8]
    in_b_pub,     \* process_reply argument b_pub: &[u8]
    pc,           \* position of the run
    locals,       \* the let-bindings of process_reply made so far (a record)
    result,       \* what process_reply returned: None, Ok(verifier) or Err
    reply,        \* the last argument given to verify_server
    verdict,      \* what verify_server returned for reply
    path,         \* the positions the run went through, in order
    srv           \* the reference server of the protocol (b, v, B, S, key)

inputs == <<params, in_a, in_username, in_password, in_salt, in_b_pub>>
vars == <<params, in_a, in_username, in_password, in_salt, in_b_pub,
          pc, locals, result, reply, verdict, path, srv>>

(***************************************************************************)
(* Bounds of the model.                                                    *)
(***************************************************************************)
\* longest byte string given as a or b_pub
MaxLen == 2
\* largest k, x, u, a, b of the arithmetic-only specifications
MaxVal == 2
\* largest modulus and generator of the arithmetic-only specifications
MaxMod == 5

(***************************************************************************)
(* BigUint: byte conversion and modular exponentiation (num_bigint).       *)
(***************************************************************************)
RECURSIVE from_bytes_be(_)
from_bytes_be(bytes) ==
    IF bytes = <<>> THEN 0
    ELSE from_bytes_be(SubSeq(bytes, 1, Len(bytes) - 1)) * 256 + bytes[Len(bytes)]

\* the minimal big-endian encoding; zero is the single byte 0
RECURSIVE to_bytes_be(_)
to_bytes_be(v) ==
    IF v < 256 THEN <<v>> ELSE to_bytes_be(v \div 256) \o <<v % 256>>

\* binary exponentiation, from the low bit of the exponent up; a modulus
\* of one gives zero, and zero to a positive power is zero
RECURSIVE modpow(_, _, _)
modpow(base, exp, modulus) ==
    IF exp = 0 THEN 1 % modulus
    ELSE IF base = 0 THEN 0
    ELSE (modpow((base * base) % modulus, exp \div 2, modulus)
              * (IF exp % 2 = 1 THEN base ELSE 1)) % modulus

(***************************************************************************)
(* The digest D: new / update / finalize, and the one-shot D::digest.      *)
(* update appends to the message; finalize folds the message into a        *)
(* two-byte output.                                                        *)
(***************************************************************************)
D_new == <<>>

D_update(d, data) == d \o data

RECURSIVE D_state(_)
D_state(msg) ==
    IF msg = <<>> THEN 7
    ELSE (D_state(SubSeq(msg, 1, Len(msg) - 1)) * 33 + msg[Len(msg)] + 1) % 1021

D_finalize(d) == LET h == D_state(d) IN <<h \div 256, h % 256>>

D_digest(data) == D_finalize(D_update(D_new, data))

\* the ^ of two bytes
RECURSIVE Xor(_, _)
Xor(p, q) ==
    IF p = 0 /\ q = 0 THEN 0
    ELSE (((p % 2) + (q % 2)) % 2) + 2 * Xor(p \div 2, q \div 2)

(***************************************************************************)
(* Hash-derivation functions.                                              *)
(***************************************************************************)
compute_u(a_pub, b_pub) ==
    LET u0 == D_new
        u1 == D_update(u0, a_pub)
        u2 == D_update(u1, b_pub)
    IN  from_bytes_be(D_finalize(u2))

\* l = n.len() - g_bytes.len(), before any use of it as a usize
compute_k_pad(group) == Len(to_bytes_be(group.n)) - Len(to_bytes_be(group.g))

\* the generator copied to the front of the buffer, the zeros behind it
compute_k_padded_g_swapped(group) ==
    LET n       == to_bytes_be(group.n)
        g_bytes == to_bytes_be(group.g)
    IN  [i \in 1..Len(n) |-> IF i <= Len(g_bytes) THEN g_bytes[i] ELSE 0]

\* buf = vec![0u8; n.len()]; buf[l..].copy_from_slice(&g_bytes)
compute_k_padded_g(group) ==
    LET n       == to_bytes_be(group.n)
        g_bytes == to_bytes_be(group.g)
        l       == compute_k_pad(group)
    IN  [i \in 1..Len(n) |-> IF i <= l THEN 0 ELSE g_bytes[i - l]]

\* A usize subtraction below zero panics (overflow check) or wraps to an
\* index past the buffer, where the slice or the allocation panics: in
\* every build the call returns nothing.
Panic == [panic |-> TRUE]

Value(v) == [panic |-> FALSE, value |-> v]

compute_k(group) ==
    IF compute_k_pad(group) < 0 THEN Panic
    ELSE LET n  == to_bytes_be(group.n)
             d0 == D_new
             d1 == D_update(d0, n)
             d2 == D_update(d1, compute_k_padded_g(group))
         IN  Value(from_bytes_be(D_finalize(d2)))

\* vec![0; n.len() - g_bytes.len()]
compute_m1_pad(group) == Len(to_bytes_be(group.n)) - Len(to_bytes_be(group.g))

\* g = vec![0; pad]; g.extend_from_slice(&g_bytes)
compute_m1_padded_g(group) ==
    [i \in 1..compute_m1_pad(group) |-> 0] \o to_bytes_be(group.g)

compute_m1(a_pub, b_pub, key, username, salt, group) ==
    IF compute_m1_pad(group) < 0 THEN Panic
    ELSE LET n      == to_bytes_be(group.n)
             g      == compute_m1_padded_g(group)
             g_hash == D_digest(g)
             n_hash == D_digest(n)
             mixed  == [i \in 1..Len(g_hash) |-> Xor(g_hash[i], n_hash[i])]
             d1     == D_update(D_new, mixed)
             d2     == D_update(d1, D_digest(username))
             d3     == D_update(d2, salt)
             d4     == D_update(d3, a_pub)
             d5     == D_update(d4, b_pub)
             d6     == D_update(d5, key)
         IN  Value(D_finalize(d6))

compute_m2(a_pub, m1, key) ==
    LET d1 == D_update(D_new, a_pub)
        d2 == D_update(d1, m1)
        d3 == D_update(d2, key)
    IN  D_finalize(d3)

(***************************************************************************)
(* SrpClient: the engine bound to self.params.                             *)
(***************************************************************************)
compute_a_pub(a) == modpow(params.g, a, params.n)

compute_identity_hash(username, password) ==
    LET d1 == D_update(D_new, username)
        d2 == D_update(d1, <<58>>)
        d3 == D_update(d2, password)
    IN  D_finalize(d3)

compute_x(identity_hash, salt) ==
    LET x1 == D_update(D_new, salt)
        x2 == D_update(x1, identity_hash)
    IN  from_bytes_be(D_finalize(x2))

\* base = (k * g^x mod N) % N
premaster_base(k, x) == (k * modpow(params.g, x, params.n)) % params.n

\* the same difference without the modulus added first
premaster_sum_bare(b_pub, base) == b_pub - base

\* (N + b_pub) - base, the unsigned value that is then reduced
premaster_sum(b_pub, base) == (params.n + b_pub) - base

\* the exponent without the ephemeral secret
compute_premaster_secret_no_a(b_pub, k, x, a, u) ==
    LET base0 == premaster_base(k, x)
        base  == premaster_sum(b_pub, base0) % params.n
        exp   == u * x
    IN  modpow(base, exp, params.n)

compute_premaster_secret(b_pub, k, x, a, u) ==
    LET base0 == premaster_base(k, x)
        base  == premaster_sum(b_pub, base0) % params.n
        exp   == (u * x) + a
    IN  modpow(base, exp, params.n)

compute_v(x) == modpow(params.g, x, params.n)

compute_verifier(username, password, salt) ==
    LET identity_hash == compute_identity_hash(username, password)
        x             == compute_x(identity_hash, salt)
    IN  to_bytes_be(compute_v(x))

compute_public_ephemeral(a) == to_bytes_be(compute_a_pub(from_bytes_be(a)))

(***************************************************************************)
(* process_reply, statement by statement.                                  *)
(***************************************************************************)
None == [tag |-> "None"]

Err(kind, param) == [tag |-> "Err", kind |-> kind, param |-> param]

Ok(v) == [tag |-> "Ok", value |-> v]

\* a check that only refuses the value zero itself
reply_is_illegal_zero_only(b_pub) == b_pub = 0

\* &b_pub % &self.params.n == BigUint::default()
reply_is_illegal(b_pub) == b_pub % params.n = 0

\* u hashed over the reduced B
reply_u_reduced(a_pub, b_pub) ==
    compute_u(to_bytes_be(a_pub), to_bytes_be(b_pub % params.n))

\* compute_u::<D>(&a_pub.to_bytes_be(), &b_pub.to_bytes_be())
reply_u(a_pub, b_pub) == compute_u(to_bytes_be(a_pub), to_bytes_be(b_pub))

\* the identity hash taken over the caller's username
reply_identity_hash_named(username, password) ==
    compute_identity_hash(username, password)

\* Self::compute_identity_hash(&[], password): username is not used
reply_identity_hash(username, password) ==
    compute_identity_hash(<<>>, password)

\* The whole call as a function of its arguments: Err, Ok(verifier), or
\* nothing at all when a padding subtraction panics.
process_reply(a_bytes, username, password, salt, b_bytes) ==
    LET a     == from_bytes_be(a_bytes)
        a_pub == compute_a_pub(a)
        b_pub == from_bytes_be(b_bytes)
    IN  IF reply_is_illegal(b_pub) THEN Err("IllegalParameter", "b_pub")
        ELSE
        LET u == reply_u(a_pub, b_pub)
            k == compute_k(params)
            identity_hash == reply_identity_hash(username, password)
            x == compute_x(identity_hash, salt)
        IN  IF k.panic THEN Panic
            ELSE
            LET S  == compute_premaster_secret(b_pub, k.value, x, a, u)
                K  == D_digest(to_bytes_be(S))
                m1 == compute_m1(to_bytes_be(a_pub), to_bytes_be(b_pub), K,
                                 username, salt, params)
            IN  IF m1.panic THEN Panic
                ELSE
                LET m2 == compute_m2(to_bytes_be(a_pub), m1.value, K)
                IN  Ok([m1 |-> m1.value, m2 |-> m2, key |-> K])

(***************************************************************************)
(* SrpClientVerifier.                                                      *)
(***************************************************************************)
key(v) == v.key

proof(v) == v.m1

\* a comparison over the common prefix only
RECURSIVE ct_eq_prefix(_, _)
ct_eq_prefix(x, y) ==
    IF x = <<>> \/ y = <<>> THEN 1
    ELSE IF x[1] = y[1] THEN ct_eq_prefix(Tail(x), Tail(y)) ELSE 0

\* subtle's ct_eq on slices: 0 for different lengths, else the AND of the
\* byte-wise comparisons
RECURSIVE ct_eq_bytes(_, _)
ct_eq_bytes(x, y) ==
    IF x = <<>> THEN 1
    ELSE (IF x[1] = y[1] THEN 1 ELSE 0) * ct_eq_bytes(Tail(x), Tail(y))

ct_eq(x, y) == IF Len(x) # Len(y) THEN 0 ELSE ct_eq_bytes(x, y)

verify_server(v, bytes) ==
    IF ct_eq(v.m2, bytes) # 1 THEN Err("BadRecordMac", "server") ELSE Ok(<<>>)

(***************************************************************************)
(* One authentication attempt: a call of process_reply on an engine,       *)
(* followed by calls of verify_server on the verifier it returned.         *)
(***************************************************************************)
BytesUpTo(alphabet, maxlen) == UNION {[1..l -> alphabet] : l \in 0..maxlen}

\* groups of the data model: the modulus a prime, the generator a primitive
\* root below it; the second one has a two-byte modulus (padded_g = 0, 3)
Groups == {[n |-> 7, g |-> 3], [n |-> 257, g |-> 3]}

SecretsA == BytesUpTo({0, 2}, MaxLen)

\* replies of the peer: empty, zero, N, multiples of N, values above N
RepliesB == BytesUpTo({0, 1, 7}, MaxLen)

Usernames == {<<>>, <<97>>, <<98>>}

Passwords == {<<112>>, <<113>>}

Salts == {<<1>>, <<2>>}

NoServer == [b |-> 0]

InitCall ==
    /\ pc = "Start"
    /\ locals = <<>>
    /\ result = None
    /\ reply = <<>>
    /\ verdict = None
    /\ path = <<"Start">>

Init ==
    /\ params \in Groups
    /\ in_a \in SecretsA
    /\ in_username \in Usernames
    /\ in_password \in Passwords
    /\ in_salt \in Salts
    /\ in_b_pub \in RepliesB
    /\ srv = NoServer
    /\ InitCall

Goto(next) == pc' = next /\ path' = Append(path, next)

\* the derivation of k moved in front of the validation
ComputeEphemeralAndK ==
    /\ pc = "Start"
    /\ LET a == from_bytes_be(in_a)
       IN  locals' = [a     |-> a,
                      a_pub |-> compute_a_pub(a),
                      b_pub |-> from_bytes_be(in_b_pub),
                      k     |-> compute_k(params).value]
    /\ Goto("EphemeralComputed")
    /\ UNCHANGED <<inputs, result, reply, verdict, srv>>

\* let a, a_pub, b_pub
ComputeEphemeral ==
    /\ pc = "Start"
    /\ LET a == from_bytes_be(in_a)
       IN  locals' = [a     |-> a,
                      a_pub |-> compute_a_pub(a),
                      b_pub |-> from_bytes_be(in_b_pub)]
    /\ Goto("EphemeralComputed")
    /\ UNCHANGED <<inputs, result, reply, verdict, srv>>

\* if b_pub % n == 0 { return Err(IllegalParameter("b_pub")) }
ValidateReply ==
    /\ pc = "EphemeralComputed"
    /\ IF reply_is_illegal(locals.b_pub)
       THEN /\ result' = Err("IllegalParameter", "b_pub")
            /\ Goto("Rejected")
       ELSE /\ result' = result
            /\ Goto("ReplyValidated")
    /\ UNCHANGED <<inputs, locals, reply, verdict, srv>>

\* let u, k, identity_hash, x, key (the premaster secret), key (its digest)
DeriveSecret ==
    /\ pc = "ReplyValidated"
    /\ LET u             == reply_u(locals.a_pub, locals.b_pub)
           k             == compute_k(params)
           identity_hash == reply_identity_hash(in_username, in_password)
           x             == compute_x(identity_hash, in_salt)
       IN  IF k.panic
           THEN /\ locals' = locals @@ [u |-> u]
                /\ Goto("Panicked")
           ELSE LET S == compute_premaster_secret(locals.b_pub, k.value, x,
                                                  locals.a, u)
                IN  /\ locals' = locals @@
                          [u |-> u, k |-> k.value,
                           identity_hash |-> identity_hash, x |-> x,
                           S |-> S, key |-> D_digest(to_bytes_be(S))]
                    /\ Goto("SecretDerived")
    /\ UNCHANGED <<inputs, result, reply, verdict, srv>>

\* M2 hashed over B where the source hashes A
ComputeProofsOverB ==
    /\ pc = "SecretDerived"
    /\ LET m1 == compute_m1(to_bytes_be(locals.a_pub), to_bytes_be(locals.b_pub),
                            locals.key, in_username, in_salt, params)
           m2 == compute_m2(to_bytes_be(locals.b_pub), m1.value, locals.key)
       IN  /\ locals' = locals @@ [m1 |-> m1.value, m2 |-> m2]
           /\ result' = Ok([m1 |-> m1.value, m2 |-> m2, key |-> locals.key])
           /\ Goto("ProofsComputed")
    /\ UNCHANGED <<inputs, reply, verdict, srv>>

\* let m1, m2; Ok(SrpClientVerifier { m1, m2, key })
ComputeProofs ==
    /\ pc = "SecretDerived"
    /\ LET m1 == compute_m1(to_bytes_be(locals.a_pub), to_bytes_be(locals.b_pub),
                            locals.key, in_username, in_salt, params)
       IN  IF m1.panic
           THEN /\ UNCHANGED <<locals, result>>
                /\ Goto("Panicked")
           ELSE LET m2 == compute_m2(to_bytes_be(locals.a_pub), m1.value,
                                     locals.key)
                IN  /\ locals' = locals @@ [m1 |-> m1.value, m2 |-> m2]
                    /\ result' = Ok([m1 |-> m1.value, m2 |-> m2,
                                     key |-> locals.key])
                    /\ Goto("ProofsComputed")
    /\ UNCHANGED <<inputs, reply, verdict, srv>>

\* what a peer may send back: M2 itself, nothing, a prefix of M2, M2 with a
\* byte appended, M2 with one bit flipped in its last or in its first byte
ServerReplies(m2) ==
    {m2, <<>>, SubSeq(m2, 1, Len(m2) - 1), m2 \o <<0>>,
     [m2 EXCEPT ![Len(m2)] = Xor(@, 1)], [m2 EXCEPT ![1] = Xor(@, 128)]}

VerifyServer ==
    /\ pc = "ProofsComputed"
    /\ \E bytes \in ServerReplies(result.value.m2) :
          /\ reply' = bytes
          /\ verdict' = verify_server(result.value, bytes)
    /\ UNCHANGED <<inputs, pc, locals, result, path, srv>>

ProcessReply == ComputeEphemeral \/ ValidateReply \/ DeriveSecret \/ ComputeProofs

Next == ProcessReply \/ VerifyServer

Spec == Init /\ [][Next]_vars

(***************************************************************************)
(* Properties of one authentication attempt (specification Spec).          *)
(***************************************************************************)
IllegalBPub == Err("IllegalParameter", "b_pub")

BadServerMac == Err("BadRecordMac", "server")

Validated == pc \notin {"Start", "EphemeralComputed"}

\* process_reply has just returned a verifier, verify_server not yet called
Returned == pc = "ProofsComputed" /\ verdict = None

\* C1: when the big-endian value of b_pub is congruent to 0 modulo N (the
\* empty string, zero bytes, N, any multiple of N), process_reply returns
\* Err(IllegalParameter("b_pub")) and no verifier, whatever the other
\* arguments are; when it is not congruent to 0 the call never returns that
\* error.
C1_ZeroReplyIsRejected ==
    LET B == from_bytes_be(in_b_pub)
    IN  /\ pc = "Start" =>
              (process_reply(in_a, in_username, in_password, in_salt, in_b_pub)
                   = IllegalBPub <=> B % params.n = 0)
        /\ (Validated /\ B % params.n = 0) =>
              pc = "Rejected" /\ result = IllegalBPub
        /\ B % params.n # 0 => pc # "Rejected" /\ result # IllegalBPub

\* a multiple of N that is neither zero nor N itself was refused
C1_Witness ==
    /\ pc = "Rejected"
    /\ result = IllegalBPub
    /\ from_bytes_be(in_b_pub) > params.n

\* C2: verify_server(reply) returns Ok exactly when reply equals the stored
\* M2 byte for byte; for every other reply (empty, shorter, longer, one bit
\* different) it returns Err(BadRecordMac("server")).
C2_VerifyServerIffEqual ==
    pc = "ProofsComputed" =>
        /\ \A bytes \in ServerReplies(result.value.m2) :
              verify_server(result.value, bytes) =
                  IF bytes = result.value.m2 THEN Ok(<<>>) ELSE BadServerMac
        /\ verdict # None =>
              verdict = IF reply = result.value.m2 THEN Ok(<<>>) ELSE BadServerMac

\* a reply as long as M2 that differs from it in one bit was refused
C2_Witness ==
    /\ pc = "ProofsComputed"
    /\ verdict = BadServerMac
    /\ Len(reply) = Len(result.value.m2)
    /\ reply[1] = result.value.m2[1]

\* C5: in process_reply x, the premaster secret and K come from the
\* identity hash of the empty username: calls that differ only in username
\* return the same K; username enters only M1, as H(username), and so M2.
C5_UsernameOnlyInProofs ==
    Returned =>
        /\ locals.identity_hash = compute_identity_hash(<<>>, in_password)
        /\ locals.x = compute_x(compute_identity_hash(<<>>, in_password), in_salt)
        /\ \A name \in Usernames :
              LET other == process_reply(in_a, name, in_password, in_salt, in_b_pub)
              IN  /\ other.tag = "Ok"
                  /\ key(other.value) = key(result.value)
                  /\ proof(other.value) =
                        compute_m1(to_bytes_be(locals.a_pub),
                                   to_bytes_be(locals.b_pub), key(result.value),
                                   name, in_salt, params).value
                  /\ D_digest(name) = D_digest(in_username) =>
                        other.value = result.value

\* a call with a non-empty username, and another username gives another M1
C5_Witness ==
    /\ pc = "ProofsComputed"
    /\ in_username # <<>>
    /\ \E name \in Usernames :
          proof(process_reply(in_a, name, in_password, in_salt, in_b_pub).value)
              # proof(result.value)

SuccessPath ==
    <<"Start", "EphemeralComputed", "ReplyValidated", "SecretDerived",
      "ProofsComputed">>

RejectPath == <<"Start", "EphemeralComputed", "Rejected">>

IsPrefix(s, t) == Len(s) <= Len(t) /\ s = SubSeq(t, 1, Len(s))

C8_StoredM2 ==
    pc = "ProofsComputed" =>
        LET expected == compute_m2(compute_public_ephemeral(in_a),
                                   proof(result.value), key(result.value))
        IN  /\ result.value.m2 = expected
            /\ verify_server(result.value, expected) = Ok(<<>>)

\* verify_server was given M2 and accepted it, a being sent with a leading
\* zero byte
C8_Witness ==
    /\ pc = "ProofsComputed"
    /\ verdict = Ok(<<>>)
    /\ reply = compute_m2(compute_public_ephemeral(in_a), proof(result.value),
                          key(result.value))
    /\ Len(in_a) = 2 /\ in_a[1] = 0

\* the bytes of a value without its leading zero bytes
RECURSIVE StripLeadingZeros(_)
StripLeadingZeros(bytes) ==
    IF bytes # <<>> /\ bytes[1] = 0 THEN StripLeadingZeros(Tail(bytes)) ELSE bytes

\* encodings of the integer that bytes encodes
SameInteger(bytes) ==
    {bytes, <<0>> \o bytes, StripLeadingZeros(bytes)}

\* C10: process_reply hashes the minimal big-endian encodings of A and B,
\* not the caller's bytes: calls whose a and whose b_pub encode the same
\* integers return the same K, M1 and M2; and B is hashed unreduced, also
\* when B >= N.
C10_MinimalEncodingsHashed ==
    Returned =>
        /\ \A a2 \in SameInteger(in_a), b2 \in SameInteger(in_b_pub) :
              process_reply(a2, in_username, in_password, in_salt, b2) = result
        /\ locals.u = compute_u(to_bytes_be(locals.a_pub),
                                StripLeadingZeros(in_b_pub))
        /\ proof(result.value) =
              compute_m1(to_bytes_be(locals.a_pub), StripLeadingZeros(in_b_pub),
                         key(result.value), in_username, in_salt, params).value

\* a and b_pub both sent with a leading zero byte, and another call with B
\* above N
C10_Witness ==
    /\ pc = "ProofsComputed"
    /\ Len(in_a) = 2 /\ in_a[1] = 0
    /\ \/ Len(in_b_pub) = 2 /\ in_b_pub[1] = 0
       \/ from_bytes_be(in_b_pub) > params.n

(***************************************************************************)
(* The reference server of SRP-6a: it holds the verifier v = g^x mod N     *)
(* and a secret b, sends B = (k*v + g^b) mod N, and derives                *)
(* S = (A * v^u)^b mod N and the session key H(S).                         *)
(***************************************************************************)
server_b_pub(k, v, b) == (k * v + modpow(params.g, b, params.n)) % params.n

server_premaster_secret(a_pub, v, u, b) ==
    modpow(a_pub * modpow(v, u, params.n), b, params.n)

(***************************************************************************)
(* Key agreement on integers: compute_premaster_secret against the         *)
(* reference server, for any modulus from 1 up and any generator.          *)
(***************************************************************************)
NoCall ==
    /\ in_a = <<>>
    /\ in_username = <<>>
    /\ in_password = <<>>
    /\ in_salt = <<>>
    /\ in_b_pub = <<>>
    /\ result = None
    /\ reply = <<>>
    /\ verdict = None
    /\ path = <<>>

AnyGroups == {[n |-> n, g |-> g] : n \in 1..MaxMod, g \in 0..MaxMod}

InitAgreement ==
    /\ params \in AnyGroups
    /\ locals \in [k : 0..MaxVal, x : 0..MaxVal, u : 0..MaxVal, a : 0..MaxVal]
    /\ srv \in [b : 0..MaxVal]
    /\ pc = "Start"
    /\ NoCall

\* the server registers v = compute_v(x) and answers with B
ServerReply ==
    /\ pc = "Start"
    /\ LET v == compute_v(locals.x)
           B == server_b_pub(locals.k, v, srv.b)
       IN  /\ srv' = srv @@ [v |-> v, B |-> B]
           /\ locals' = locals @@ [b_pub |-> B]
    /\ pc' = "ReplyReceived"
    /\ UNCHANGED <<inputs, result, reply, verdict, path>>

ClientPremaster ==
    /\ pc = "ReplyReceived"
    /\ locals' = locals @@
          [S |-> compute_premaster_secret(locals.b_pub, locals.k, locals.x,
                                          locals.a, locals.u)]
    /\ pc' = "PremasterDone"
    /\ UNCHANGED <<inputs, result, reply, verdict, path, srv>>

ServerPremaster ==
    /\ pc = "PremasterDone"
    /\ "S" \notin DOMAIN srv
    /\ srv' = srv @@
          [S |-> server_premaster_secret(compute_a_pub(locals.a), srv.v,
                                         locals.u, srv.b)]
    /\ UNCHANGED <<inputs, pc, locals, result, reply, verdict, path>>

NextAgreement == ServerReply \/ ClientPremaster \/ ServerPremaster

SpecAgreement == InitAgreement /\ [][NextAgreement]_vars

\* C3: key agreement: with v = g^x mod N, A = g^a mod N and
\* B = (k*v + g^b) mod N, compute_premaster_secret(B, k, x, a, u) equals
\* the server's (A * v^u)^b mod N, for every modulus N >= 1, generator and
\* k, x, u, a, b.
C3_KeyAgreement ==
    "S" \in DOMAIN srv =>
        /\ srv.v = modpow(params.g, locals.x, params.n)
        /\ locals.b_pub = (locals.k * srv.v + modpow(params.g, srv.b, params.n))
                              % params.n
        /\ locals.S = srv.S

\* both sides derived a premaster secret other than 0 and 1, every one of
\* x, u, a, b being positive
C3_Witness ==
    /\ "S" \in DOMAIN srv
    /\ locals.S > 1
    /\ srv.S = locals.S
    /\ locals.x > 0 /\ locals.u > 0 /\ locals.a > 0 /\ srv.b > 0 /\ locals.k > 0

(***************************************************************************)
(* compute_premaster_secret on any reply B, reduced or not.                *)
(***************************************************************************)
InitPremaster ==
    /\ params \in AnyGroups
    /\ locals \in [k : 0..MaxVal, x : 0..MaxVal, u : 0..MaxVal, a : 0..MaxVal,
                   b_pub : 0..(2 * MaxMod)]
    /\ srv = NoServer
    /\ pc = "ReplyReceived"
    /\ NoCall

NextPremaster == ClientPremaster

SpecPremaster == InitPremaster /\ [][NextPremaster]_vars

\* g^x as an integer, not reduced
RECURSIVE Pow(_, _)
Pow(g, x) == IF x = 0 THEN 1 ELSE g * Pow(g, x - 1)

\* C9: in compute_premaster_secret, for every N >= 1 and all unsigned B, k,
\* x (B below the base, B at or above N), N + B - base with
\* base = (k * g^x mod N) mod N is never negative, and
\* diff = (N + B - base) mod N is the residue of B - k*g^x modulo N in
\* [0, N).
C9_NoNegativeIntermediate ==
    pc = "PremasterDone" =>
        LET N    == params.n
            base == premaster_base(locals.k, locals.x)
            sum  == premaster_sum(locals.b_pub, base)
            diff == sum % N
            true == locals.b_pub - locals.k * Pow(params.g, locals.x)
        IN  /\ base \in 0..(N - 1)
            /\ sum >= 0
            /\ diff \in 0..(N - 1)
            /\ \E q \in (0 - locals.k * Pow(params.g, locals.x))..locals.b_pub :
                  true = q * N + diff
            /\ locals.S = modpow(diff, locals.u * locals.x + locals.a, N)

\* the premaster secret was computed for a B below the base, where B - base
\* alone is negative
C9_Witness ==
    /\ pc = "PremasterDone"
    /\ locals.b_pub < premaster_base(locals.k, locals.x)
    /\ locals.S > 1

(***************************************************************************)
(* compute_k and compute_m1 on any SrpGroup value: the fields are public   *)
(* and nothing validates them.                                             *)
(***************************************************************************)
GroupModuli == (2..MaxMod) \cup {255, 256, 257, 65535, 65536}

GroupGenerators == (0..MaxVal) \cup {255, 256, 257, 65535, 65536}

InitGroup ==
    /\ params \in {[n |-> n, g |-> g] : n \in GroupModuli, g \in GroupGenerators}
    /\ in_username \in Usernames
    /\ in_salt \in Salts
    /\ in_a = <<>>
    /\ in_password = <<>>
    /\ in_b_pub = <<>>
    /\ locals = <<>>
    /\ srv = NoServer
    /\ pc = "Group"
    /\ result = None
    /\ reply = <<>>
    /\ verdict = None
    /\ path = <<>>

CallComputeK ==
    /\ pc = "Group"
    /\ "k" \notin DOMAIN locals
    /\ locals' = locals @@ [k |-> compute_k(params)]
    /\ UNCHANGED <<inputs, pc, result, reply, verdict, path, srv>>

CallComputeM1 ==
    /\ pc = "Group"
    /\ "m1" \notin DOMAIN locals
    /\ locals' = locals @@
          [m1 |-> compute_m1(<<1>>, <<2>>, <<3>>, in_username, in_salt, params)]
    /\ UNCHANGED <<inputs, pc, result, reply, verdict, path, srv>>

NextGroup == CallComputeK \/ CallComputeM1

SpecGroup == InitGroup /\ [][NextGroup]_vars

Zeros(count) == [i \in 1..count |-> 0]

PaddedGAsSpecified ==
    LET n_bytes == to_bytes_be(params.n)
        g_bytes == to_bytes_be(params.g)
    IN  /\ compute_k_pad(params) >= 0
        /\ compute_m1_pad(params) >= 0
        /\ compute_k_padded_g(params) =
              Zeros(Len(n_bytes) - Len(g_bytes)) \o g_bytes
        /\ Len(compute_k_padded_g(params)) = Len(n_bytes)
        /\ compute_m1_padded_g(params) = compute_k_padded_g(params)
        /\ "k" \in DOMAIN locals =>
              locals.k = Value(from_bytes_be(
                             D_digest(n_bytes \o compute_k_padded_g(params))))
        /\ "m1" \in DOMAIN locals => ~ locals.m1.panic

\* C7 as stated: for every group the pad length len(N_bytes) - len(g_bytes)
\* is never negative and compute_k and compute_m1 hash the same padded_g,
\* zero bytes followed by the generator's encoding, as long as N_bytes.
C7_AnyGroupPadded == DOMAIN locals = {"k", "m1"} => PaddedGAsSpecified

\* C7, amended: the same for every group whose generator's encoding is no
\* longer than the modulus's (every group with g < N); for a longer
\* generator the pad length is negative and both functions panic.
C7_PaddedG ==
    DOMAIN locals = {"k", "m1"} =>
        IF Len(to_bytes_be(params.g)) <= Len(to_bytes_be(params.n))
        THEN PaddedGAsSpecified
        ELSE /\ compute_k_pad(params) < 0
             /\ compute_m1_pad(params) < 0
             /\ locals.k = Panic
             /\ locals.m1 = Panic

\* both functions ran on a group whose generator is shorter than its
\* modulus, so that zero bytes were put in front of it
C7_Witness ==
    /\ DOMAIN locals = {"k", "m1"}
    /\ compute_k_pad(params) > 0
    /\ params.g > 1
    /\ ~ locals.k.panic /\ ~ locals.m1.panic

(***************************************************************************)
(* Round trip: the server registers compute_verifier(username, password,   *)
(* salt) and the client calls process_reply on the server's B with the     *)
(* same username and password.                                             *)
(***************************************************************************)
InitRoundTrip ==
    /\ params \in Groups
    /\ in_a \in SecretsA
    /\ in_username \in Usernames
    /\ in_password \in Passwords
    /\ in_salt \in Salts
    /\ \E b \in 0..MaxVal :
          LET v == from_bytes_be(
                       compute_verifier(in_username, in_password, in_salt))
              B == server_b_pub(compute_k(params).value, v, b)
          IN  /\ srv = [b |-> b, v |-> v, B |-> B]
              /\ in_b_pub = to_bytes_be(B)
    /\ InitCall

\* the server hashes the A and B that went over the wire
ServerSessionKey ==
    /\ "key" \notin DOMAIN srv
    /\ LET a_pub == compute_public_ephemeral(in_a)
           u     == compute_u(a_pub, in_b_pub)
           S     == server_premaster_secret(from_bytes_be(a_pub), srv.v, u, srv.b)
       IN  srv' = srv @@ [u |-> u, S |-> S, key |-> D_digest(to_bytes_be(S))]
    /\ UNCHANGED <<inputs, pc, locals, result, reply, verdict, path>>

NextRoundTrip == ProcessReply \/ ServerSessionKey

SpecRoundTrip == InitRoundTrip /\ [][NextRoundTrip]_vars

\* C4: round trip: the session key of the reference server that uses
\* compute_verifier(username, password, salt) equals
\* process_reply(a, username, password, salt, B).key() for the same
\* username and password.
C4_RoundTripKey ==
    (pc = "ProofsComputed" /\ "key" \in DOMAIN srv) =>
        srv.key = key(result.value)

\* the same with the empty username, which is what process_reply hashes
C4_RoundTripKeyEmptyUsername ==
    (pc = "ProofsComputed" /\ "key" \in DOMAIN srv /\ in_username = <<>>) =>
        srv.key = key(result.value)

====
